---------------------------- MODULE Spec2Model ----------------------------
(***************************************************************************)
(* Room/session lifecycle coordinator of BeatBattles.                      *)
(*                                                                         *)
(* The state is the two module-level maps of services/roomService.ts       *)
(* (rooms: id -> Room, roomsByCode: code -> id).  Every exported operation *)
(* of the service is one action.  The timestamps createdAt/updatedAt are   *)
(* not part of the state: no operation reads them.                         *)
(*                                                                         *)
(* A room code is a sequence of one-character strings.  User ids and room  *)
(* ids are numbers: user ids are supplied by the caller, room ids stand    *)
(* for the values of uuidv4(), which never repeat.                         *)
(***************************************************************************)
EXTENDS Integers, Sequences, FiniteSets, TLC

(***************************************************************************)
(* Bounds of the model.                                                    *)
(***************************************************************************)
\* number of distinct user ids the callers use
NumUsers == 3
\* number of rooms created in one behaviour (room ids 1..MaxRooms)
MaxRooms == 2
\* rooms alive at a time under Spec
MaxLive == 1
\* number of distinct user ids under SpecRooms
RoomsUsers == 2
\* number of distinct codes the random generator is seen to draw
NumCodes == 2
\* longest run of draws of one createRoom call
MaxDraws == 2
\* largest explicit capacity passed to createRoom (besides the default)
MaxCapacityArg == 2
\* longest string passed to formatRoomCode
MaxFormatLen == 7
\* number of distinct user ids under SpecGateway
GatewayUsers == 1

(***************************************************************************)
(* Program constants.                                                      *)
(***************************************************************************)
\* roomUtils.ts: length of a generated code and of a valid code
CodeLength == 6
\* roomService.ts: default value of createRoom's maxPlayers parameter
DefaultMaxPlayers == 10
\* roomService.ts: startGame needs at least this many players
MinPlayersToStart == 2
\* roomService.ts: getTimeRemaining
ComposingSeconds == 300
VotingSeconds == 120

\* enum RoomStatus
WAITING == "waiting"
COMPOSING == "composing"
VOTING == "voting"
RESULTS == "results"
RoomStatus == {WAITING, COMPOSING, VOTING, RESULTS}

\* generateRoomCode: the string `characters'
characters ==
  << "A", "B", "C", "D", "E", "F", "G", "H", "J", "K", "L", "M", "N", "P",
     "Q", "R", "S", "T", "U", "V", "W", "X", "Y", "Z", "2", "3", "4", "5",
     "6", "7", "8", "9" >>

\* isValidRoomCode: the character class [A-Z0-9]
UpperAlnum ==
  { "A", "B", "C", "D", "E", "F", "G", "H", "I", "J", "K", "L", "M", "N",
    "O", "P", "Q", "R", "S", "T", "U", "V", "W", "X", "Y", "Z", "0", "1",
    "2", "3", "4", "5", "6", "7", "8", "9" }

\* startGame: the array `themes'
themes ==
  << "Space Adventure", "Underwater Journey", "Jungle Expedition",
     "Desert Mirage", "Cyberpunk City", "Medieval Castle", "Haunted Mansion",
     "Tropical Paradise", "Arctic Wilderness", "Steampunk Factory" >>

\* the value `undefined' of an optional theme, socket id, room id
NoTheme == "<undefined>"
NoSocket == "<undefined>"
NoName == "<undefined>"
\* socketId?: string: the key socketId missing from a user object a caller
\* passes, as opposed to the key being there with the value undefined
NoKey == "<absent>"
NoRoom == 0

(***************************************************************************)
(* Inputs.                                                                 *)
(***************************************************************************)
UserIds == 1 .. NumUsers

\* generateRoomCode: result of the six draws charAt(randomIndex).  The model
\* lets the last draw range over the first NumCodes characters.
generateRoomCode(k) ==
  [i \in 1 .. CodeLength |-> IF i < CodeLength THEN characters[1] ELSE characters[k]]

GeneratedCodes == { generateRoomCode(k) : k \in 1 .. NumCodes }

\* codes a caller may pass that the generator never produces
MalformedCodes == { << "i", "n", "v", "a", "l", "i", "d" >>,
                    << "a", "a", "a", "a", "a", "a" >> }

CodeArgs == GeneratedCodes \cup MalformedCodes

\* capacities passed to createRoom; the default applies when none is passed
CapacityArgs == {0, MaxCapacityArg, DefaultMaxPlayers}

\* runs of draws of generateRoomCode within one createRoom call
DrawRuns == UNION { [1 .. n -> GeneratedCodes] : n \in 1 .. MaxDraws }

\* Math.floor(Math.random() * themes.length)
ThemeIndexes == 0 .. (Len(themes) - 1)

\* interface User
User(id, username, isConnected, socketId) ==
  [id |-> id, username |-> username, isConnected |-> isConnected,
   socketId |-> socketId]

\* user.socketId as the code reads it: undefined when the object lacks the key.
\* A stored player holds this value, so that a missing key and a key set to
\* undefined are the same stored player
socketIdOf(user) == IF user.socketId = NoKey THEN NoSocket ELSE user.socketId

\* rooms:       roomService.ts, const rooms (room id -> Room)
\* roomsByCode: roomService.ts, const roomsByCode (code -> room id)
\* nextRoomId:  the next value uuidv4() hands out
\* last:        the last call of the service and what it returned
\* rooms, roomsByCode: the two maps of roomService; nextRoomId: the number of
\* the next uuid; last: the last call of the service.
\* sockets: the life of every socket of the server; joined: the socket.io
\* rooms every socket is in; request: the last event a socket handler of the
\* controller received; emitted: what that handler emitted, in order.
VARIABLES rooms, roomsByCode, nextRoomId, last, sockets, joined, request, emitted

vars ==
  << rooms, roomsByCode, nextRoomId, last, sockets, joined, request, emitted >>

\* the variables of the controller
gateway == << sockets, joined, request, emitted >>

\* the ids of the sockets that connect to the server
SocketIds == {"socket-1", "socket-2"}

\* the record of a received event; failed tells that the handler took one of
\* its error paths
Request(event, socket, failed) ==
  [event |-> event, socket |-> socket, failed |-> failed]

\* the record of a call: roomId is the room the call resolved its argument
\* to (NoRoom when it found none); hostBefore, statusBefore and lenBefore are
\* the hostId, the status and the number of players of that room when the
\* call was made; ret is the id of the returned room, or NoRoom when the
\* call returned undefined (or nothing); username and socketId are those of
\* the user passed to joinRoom, isConnected and socketId the arguments of
\* updateUserConnection; hostsBefore is set by a sweep to the host of every
\* room that was there when it ran
CallWith(op, roomId, userId, ret, username, socketId, isConnected) ==
  [op |-> op, roomId |-> roomId, userId |-> userId, ret |-> ret,
   hostBefore |-> IF roomId \in DOMAIN rooms THEN rooms[roomId].hostId ELSE 0,
   statusBefore |-> IF roomId \in DOMAIN rooms THEN rooms[roomId].status
                    ELSE "none",
   lenBefore |-> IF roomId \in DOMAIN rooms THEN Len(rooms[roomId].players)
                 ELSE 0,
   username |-> username, socketId |-> socketId, isConnected |-> isConnected,
   hostsBefore |-> << >>]

Call(op, roomId, userId, ret) ==
  CallWith(op, roomId, userId, ret, NoName, NoSocket, FALSE)

(***************************************************************************)
(* Pure helpers.                                                           *)
(***************************************************************************)
\* a test that takes letters only: /^[A-Z]{6}$/
isValidRoomCodeLetters(code) ==
  /\ Len(code) = CodeLength
  /\ \A i \in 1 .. Len(code) :
       code[i] \in UpperAlnum \ {"0", "1", "2", "3", "4", "5", "6", "7", "8", "9"}

\* /^[A-Z0-9]{6}$/.test(code)
isValidRoomCode(code) ==
  /\ Len(code) = CodeLength
  /\ \A i \in 1 .. Len(code) : code[i] \in UpperAlnum

\* a search that never finds the user
findIndexNever(players, userId) == 0

\* Array.prototype.findIndex(p => p.id === userId), 1-based; 0 when absent
findIndex(players, userId) ==
  IF \E i \in 1 .. Len(players) : players[i].id = userId
  THEN CHOOSE i \in 1 .. Len(players) :
         /\ players[i].id = userId
         /\ \A j \in 1 .. (i - 1) : players[j].id # userId
  ELSE 0

\* a search for the new host that ignores the connection state
findNewHostAnyState(players, userId) ==
  IF \E i \in 1 .. Len(players) : players[i].id # userId
  THEN CHOOSE i \in 1 .. Len(players) :
         /\ players[i].id # userId
         /\ \A j \in 1 .. (i - 1) : players[j].id = userId
  ELSE 0

\* room.players.find(p => p.id !== userId && p.isConnected): index, 0 if none
findNewHost(players, userId) ==
  IF \E i \in 1 .. Len(players) : players[i].id # userId /\ players[i].isConnected
  THEN CHOOSE i \in 1 .. Len(players) :
         /\ players[i].id # userId /\ players[i].isConnected
         /\ \A j \in 1 .. (i - 1) :
              ~(players[j].id # userId /\ players[j].isConnected)
  ELSE 0

\* room.players.filter(p => p.id !== userId)
RECURSIVE filterOut(_, _)
filterOut(players, userId) ==
  IF players = << >> THEN << >>
  ELSE IF Head(players).id # userId
       THEN << Head(players) >> \o filterOut(Tail(players), userId)
       ELSE filterOut(Tail(players), userId)

\* room.players.filter(p => p.isConnected)
RECURSIVE filterConnected(_)
filterConnected(players) ==
  IF players = << >> THEN << >>
  ELSE IF Head(players).isConnected
       THEN << Head(players) >> \o filterConnected(Tail(players))
       ELSE filterConnected(Tail(players))

\* Map.prototype.delete / set on a function
MapDelete(m, k) == [x \in (DOMAIN m) \ {k} |-> m[x]]
\* a set that writes the value under every key of the map
MapSetAll(m, k, v) == [x \in (DOMAIN m) \cup {k} |-> v]

MapSet(m, k, v) == [x \in (DOMAIN m) \cup {k} |-> IF x = k THEN v ELSE m[x]]

\* getRoomByCode: the id of the room found, NoRoom for undefined
getRoomByCode(code) ==
  IF ~isValidRoomCode(code) THEN NoRoom
  ELSE IF code \notin DOMAIN roomsByCode THEN NoRoom
  ELSE IF roomsByCode[code] \notin DOMAIN rooms THEN NoRoom
  ELSE roomsByCode[code]

\* getRoomById: the id of the room found, NoRoom for undefined
getRoomById(id) == IF id \in DOMAIN rooms THEN id ELSE NoRoom

(***************************************************************************)
(* Init: both maps empty, no call made.                                    *)
(***************************************************************************)
Init ==
  /\ rooms = << >>
  /\ roomsByCode = << >>
  /\ nextRoomId = 1
  /\ last = Call("none", NoRoom, 0, NoRoom)
  /\ sockets = [s \in SocketIds |-> "new"]
  /\ joined = [s \in SocketIds |-> {}]
  /\ request = Request("none", NoSocket, FALSE)
  /\ emitted = << >>

(***************************************************************************)
(* createRoom(host, maxPlayers): draws is the run of codes the generator   *)
(* returned; the loop stops at the first one roomsByCode does not hold.    *)
(***************************************************************************)
\* a createRoom whose loop never finds a code taken
roomsByCodeHasNever(roomCode) == FALSE

\* a createRoom whose loop finds every code taken
roomsByCodeHasAlways(roomCode) == TRUE

\* roomsByCode.roomsByCodeHas(roomCode), the condition of the retry loop
roomsByCodeHas(roomCode) == roomCode \in DOMAIN roomsByCode

createRoom(host, maxPlayers, draws) ==
  /\ \A i \in 1 .. (Len(draws) - 1) : roomsByCodeHas(draws[i])
  /\ ~roomsByCodeHas(draws[Len(draws)])
  /\ LET roomCode == draws[Len(draws)]
         roomId == nextRoomId
         room == [id |-> roomId, code |-> roomCode, status |-> WAITING,
                  hostId |-> host.id,
                  players |-> << [host EXCEPT !.socketId = socketIdOf(host)] >>,
                  maxPlayers |-> maxPlayers, theme |-> NoTheme]
     IN /\ rooms' = MapSet(rooms, roomId, room)
        /\ roomsByCode' = MapSet(roomsByCode, roomCode, roomId)
        /\ nextRoomId' = nextRoomId + 1
        /\ last' = Call("createRoom", roomId, host.id, roomId)

(***************************************************************************)
(* A call that returns undefined without touching the maps.                *)
(***************************************************************************)
Rejected(op, roomId, userId) ==
  /\ UNCHANGED << rooms, roomsByCode, nextRoomId >>
  /\ last' = Call(op, roomId, userId, NoRoom)

\* { ...room.players[existingUserIndex], ...user, isConnected: true }: the
\* spread copies every key the caller's user has, the key socketId set to
\* undefined included; only a key the user lacks keeps the stored value
mergeUser(existing, user) ==
  [id |-> user.id, username |-> user.username, isConnected |-> TRUE,
   socketId |-> IF user.socketId = NoKey THEN existing.socketId
                ELSE user.socketId]

(***************************************************************************)
(* joinRoom(roomCode, user)                                                *)
(***************************************************************************)
\* the record of a joinRoom call
JoinCall(roomId, user, ret) ==
  CallWith("joinRoom", roomId, user.id, ret, user.username, user.socketId, FALSE)

\* a joinRoom that returns undefined without touching the maps
JoinRejected(roomId, user) ==
  /\ UNCHANGED << rooms, roomsByCode, nextRoomId >>
  /\ last' = JoinCall(roomId, user, NoRoom)

\* a join that puts the new user in front of the others
unshiftUser(players, user) ==
  << [user EXCEPT !.isConnected = TRUE, !.socketId = socketIdOf(user)] >>
    \o players

\* room.players.push({ ...user, isConnected: true })
pushUser(players, user) ==
  Append(players,
         [user EXCEPT !.isConnected = TRUE, !.socketId = socketIdOf(user)])

\* a joinRoom that looks for the user in the room before it tests the
\* capacity and the status
joinRoomMemberFirst(roomCode, user) ==
  LET id == getRoomByCode(roomCode) IN
  IF id = NoRoom THEN JoinRejected(NoRoom, user)
  ELSE IF findIndex(rooms[id].players, user.id) >= 1
       THEN LET room == rooms[id]
                existingUserIndex == findIndex(room.players, user.id)
                players ==
                  [room.players EXCEPT ![existingUserIndex] =
                     mergeUser(room.players[existingUserIndex], user)]
            IN /\ rooms' = MapSet(rooms, id, [room EXCEPT !.players = players])
               /\ UNCHANGED << roomsByCode, nextRoomId >>
               /\ last' = JoinCall(id, user, id)
  ELSE IF Len(rooms[id].players) >= rooms[id].maxPlayers
       THEN JoinRejected(id, user)
  ELSE IF rooms[id].status # WAITING
       THEN JoinRejected(id, user)
  ELSE LET room == rooms[id] IN
       /\ rooms' = MapSet(rooms, id,
                          [room EXCEPT !.players = pushUser(room.players, user)])
       /\ UNCHANGED << roomsByCode, nextRoomId >>
       /\ last' = JoinCall(id, user, id)

\* a joinRoom that does not look at the status of the room
joinRoomAnyPhase(roomCode, user) ==
  LET id == getRoomByCode(roomCode) IN
  IF id = NoRoom THEN JoinRejected(NoRoom, user)
  ELSE IF Len(rooms[id].players) >= rooms[id].maxPlayers
       THEN JoinRejected(id, user)
  ELSE LET room == rooms[id]
           existingUserIndex == findIndex(room.players, user.id)
           players ==
             IF existingUserIndex >= 1
             THEN [room.players EXCEPT ![existingUserIndex] =
                     mergeUser(room.players[existingUserIndex], user)]
             ELSE pushUser(room.players, user)
       IN /\ rooms' = MapSet(rooms, id, [room EXCEPT !.players = players])
          /\ UNCHANGED << roomsByCode, nextRoomId >>
          /\ last' = JoinCall(id, user, id)

joinRoom(roomCode, user) ==
  LET id == getRoomByCode(roomCode) IN
  IF id = NoRoom THEN JoinRejected(NoRoom, user)
  ELSE IF Len(rooms[id].players) >= rooms[id].maxPlayers
       THEN JoinRejected(id, user)
  ELSE IF rooms[id].status # WAITING
       THEN JoinRejected(id, user)
  ELSE LET room == rooms[id]
           existingUserIndex == findIndex(room.players, user.id)
           players ==
             IF existingUserIndex >= 1
             THEN [room.players EXCEPT ![existingUserIndex] =
                     mergeUser(room.players[existingUserIndex], user)]
             ELSE pushUser(room.players, user)
       IN /\ rooms' = MapSet(rooms, id, [room EXCEPT !.players = players])
          /\ UNCHANGED << roomsByCode, nextRoomId >>
          /\ last' = JoinCall(id, user, id)

(***************************************************************************)
(* leaveRoom(roomCode, userId)                                             *)
(***************************************************************************)
\* a leaveRoom that deletes an emptied room from rooms only
leaveRoomKeepsCode(roomCode, userId) ==
  LET id == getRoomByCode(roomCode) IN
  IF id = NoRoom THEN Rejected("leaveRoom", NoRoom, userId)
  ELSE IF findIndex(rooms[id].players, userId) < 1
       THEN /\ UNCHANGED << rooms, roomsByCode, nextRoomId >>
            /\ last' = Call("leaveRoom", id, userId, id)
  ELSE LET room == rooms[id]
           newHost == findNewHost(room.players, userId)
           hostId ==
             IF room.hostId = userId /\ Len(room.players) > 1 /\ newHost >= 1
             THEN room.players[newHost].id
             ELSE room.hostId
           players == filterOut(room.players, userId)
       IN IF Len(players) = 0
          THEN /\ rooms' = MapDelete(rooms, id)
               /\ UNCHANGED << roomsByCode, nextRoomId >>
               /\ last' = Call("leaveRoom", id, userId, NoRoom)
          ELSE /\ rooms' = MapSet(rooms, id,
                             [room EXCEPT !.hostId = hostId, !.players = players])
               /\ UNCHANGED << roomsByCode, nextRoomId >>
               /\ last' = Call("leaveRoom", id, userId, id)

\* a leaveRoom that treats a user who is not in the room as an error
leaveRoomStrict(roomCode, userId) ==
  LET id == getRoomByCode(roomCode) IN
  IF id = NoRoom THEN Rejected("leaveRoom", NoRoom, userId)
  ELSE IF findIndex(rooms[id].players, userId) < 1
       THEN Rejected("leaveRoom", id, userId)
  ELSE LET room == rooms[id]
           newHost == findNewHost(room.players, userId)
           hostId ==
             IF room.hostId = userId /\ Len(room.players) > 1 /\ newHost >= 1
             THEN room.players[newHost].id
             ELSE room.hostId
           players == filterOut(room.players, userId)
       IN IF Len(players) = 0
          THEN /\ rooms' = MapDelete(rooms, id)
               /\ roomsByCode' = MapDelete(roomsByCode, room.code)
               /\ UNCHANGED nextRoomId
               /\ last' = Call("leaveRoom", id, userId, NoRoom)
          ELSE /\ rooms' = MapSet(rooms, id,
                             [room EXCEPT !.hostId = hostId, !.players = players])
               /\ UNCHANGED << roomsByCode, nextRoomId >>
               /\ last' = Call("leaveRoom", id, userId, id)

leaveRoom(roomCode, userId) ==
  LET id == getRoomByCode(roomCode) IN
  IF id = NoRoom THEN Rejected("leaveRoom", NoRoom, userId)
  ELSE IF findIndex(rooms[id].players, userId) < 1
       THEN /\ UNCHANGED << rooms, roomsByCode, nextRoomId >>
            /\ last' = Call("leaveRoom", id, userId, id)
  ELSE LET room == rooms[id]
           newHost == findNewHost(room.players, userId)
           hostId ==
             IF room.hostId = userId /\ Len(room.players) > 1 /\ newHost >= 1
             THEN room.players[newHost].id
             ELSE room.hostId
           players == filterOut(room.players, userId)
       IN IF Len(players) = 0
          THEN /\ rooms' = MapDelete(rooms, id)
               /\ roomsByCode' = MapDelete(roomsByCode, room.code)
               /\ UNCHANGED nextRoomId
               /\ last' = Call("leaveRoom", id, userId, NoRoom)
          ELSE /\ rooms' = MapSet(rooms, id,
                             [room EXCEPT !.hostId = hostId, !.players = players])
               /\ UNCHANGED << roomsByCode, nextRoomId >>
               /\ last' = Call("leaveRoom", id, userId, id)

(***************************************************************************)
(* startGame(roomCode, userId): themeIndex is                              *)
(* Math.floor(Math.random() * themes.length), an index from 0.             *)
(***************************************************************************)
\* a theme pick that rounds the random number up instead of down
pickThemeCeil(themeIndex) ==
  IF themeIndex + 2 <= Len(themes) THEN themes[themeIndex + 2] ELSE NoTheme

\* themes[Math.floor(Math.random() * themes.length)]
pickTheme(themeIndex) == themes[themeIndex + 1]

\* a startGame that does not compare the caller with the host
startGameAnyCaller(roomCode, userId, themeIndex) ==
  LET id == getRoomByCode(roomCode) IN
  IF id = NoRoom THEN Rejected("startGame", NoRoom, userId)
  ELSE IF Len(rooms[id].players) < MinPlayersToStart
       THEN Rejected("startGame", id, userId)
  ELSE /\ rooms' = MapSet(rooms, id,
                     [rooms[id] EXCEPT !.status = COMPOSING,
                                       !.theme = pickTheme(themeIndex)])
       /\ UNCHANGED << roomsByCode, nextRoomId >>
       /\ last' = Call("startGame", id, userId, id)

startGame(roomCode, userId, themeIndex) ==
  LET id == getRoomByCode(roomCode) IN
  IF id = NoRoom THEN Rejected("startGame", NoRoom, userId)
  ELSE IF rooms[id].hostId # userId
       THEN Rejected("startGame", id, userId)
  ELSE IF Len(rooms[id].players) < MinPlayersToStart
       THEN Rejected("startGame", id, userId)
  ELSE LET randomTheme == pickTheme(themeIndex) IN
       /\ rooms' = MapSet(rooms, id,
                     [rooms[id] EXCEPT !.status = COMPOSING, !.theme = randomTheme])
       /\ UNCHANGED << roomsByCode, nextRoomId >>
       /\ last' = Call("startGame", id, userId, id)

(***************************************************************************)
(* updateUserConnection(roomId, userId, isConnected, socketId)             *)
(***************************************************************************)
\* the record of an updateUserConnection call
UpdateCall(roomId, userId, ret, isConnected, socketId) ==
  CallWith("updateUserConnection", roomId, userId, ret, NoName, socketId,
           isConnected)

\* an update that stores the socket id it is given on a disconnect too
keepSocketId(isConnected, socketId) == socketId

\* socketId: isConnected ? socketId : undefined
newSocketId(isConnected, socketId) == IF isConnected THEN socketId ELSE NoSocket

updateUserConnection(roomId, userId, isConnected, socketId) ==
  LET id == getRoomById(roomId) IN
  IF id = NoRoom
  THEN /\ UNCHANGED << rooms, roomsByCode, nextRoomId >>
       /\ last' = UpdateCall(NoRoom, userId, NoRoom, isConnected, socketId)
  ELSE LET room == rooms[id]
           userIndex == findIndex(room.players, userId)
       IN IF userIndex < 1
          THEN /\ UNCHANGED << rooms, roomsByCode, nextRoomId >>
               /\ last' = UpdateCall(id, userId, id, isConnected, socketId)
          ELSE /\ rooms' = MapSet(rooms, id,
                     [room EXCEPT !.players[userIndex] =
                        [@ EXCEPT !.isConnected = isConnected,
                                  !.socketId = newSocketId(isConnected, socketId)]])
               /\ UNCHANGED << roomsByCode, nextRoomId >>
               /\ last' = UpdateCall(id, userId, id, isConnected, socketId)

(***************************************************************************)
(* cleanupDisconnectedUsers(): one sweep over every stored room.  The      *)
(* rooms are swept independently of each other, so the result does not     *)
(* depend on the iteration order of the map.                               *)
(***************************************************************************)
\* a sweep that sends a room it shrinks below two players back to Waiting
cleanupRoomReopens(room) ==
  LET updatedPlayers == filterConnected(room.players) IN
  IF Len(updatedPlayers) = Len(room.players) THEN room
  ELSE [room EXCEPT
          !.players = updatedPlayers,
          !.status = IF Len(updatedPlayers) < MinPlayersToStart THEN WAITING
                     ELSE room.status,
          !.hostId = IF \E i \in 1 .. Len(updatedPlayers) :
                          updatedPlayers[i].id = room.hostId
                     THEN room.hostId
                     ELSE IF updatedPlayers = << >> THEN room.hostId
                     ELSE updatedPlayers[1].id]

\* a sweep that makes the last remaining player the host
cleanupRoomLastPlayer(room) ==
  LET updatedPlayers == filterConnected(room.players) IN
  IF Len(updatedPlayers) = Len(room.players) THEN room
  ELSE IF Len(updatedPlayers) = 0 THEN [room EXCEPT !.players = updatedPlayers]
  ELSE [room EXCEPT
          !.players = updatedPlayers,
          !.hostId = IF \E i \in 1 .. Len(updatedPlayers) :
                          updatedPlayers[i].id = room.hostId
                     THEN room.hostId
                     ELSE updatedPlayers[Len(updatedPlayers)].id]

\* the body of the for loop applied to one room: the room afterwards
cleanupRoom(room) ==
  LET updatedPlayers == filterConnected(room.players) IN
  IF Len(updatedPlayers) = Len(room.players) THEN room
  ELSE IF Len(updatedPlayers) = 0 THEN [room EXCEPT !.players = updatedPlayers]
  ELSE [room EXCEPT
          !.players = updatedPlayers,
          !.hostId = IF \E i \in 1 .. Len(updatedPlayers) :
                          updatedPlayers[i].id = room.hostId
                     THEN room.hostId
                     ELSE updatedPlayers[1].id]

\* the record of a sweep
CleanupCall ==
  [Call("cleanupDisconnectedUsers", NoRoom, 0, NoRoom) EXCEPT
     !.hostsBefore = [id \in DOMAIN rooms |-> rooms[id].hostId]]

\* a sweep that stores every room back, the emptied ones too
cleanupKeepsEmptyRooms ==
  /\ rooms' = [id \in DOMAIN rooms |-> cleanupRoom(rooms[id])]
  /\ UNCHANGED << roomsByCode, nextRoomId >>
  /\ last' = CleanupCall

\* a room is deleted when the filter took players away (line 281) and none
\* is left (line 286); a room whose players the filter left as they were is
\* not touched
cleanupDisconnectedUsers ==
  LET kept == { id \in DOMAIN rooms :
                  \/ Len(filterConnected(rooms[id].players))
                       = Len(rooms[id].players)
                  \/ Len(filterConnected(rooms[id].players)) # 0 }
      goneCodes == { rooms[id].code : id \in (DOMAIN rooms) \ kept }
  IN /\ rooms' = [id \in kept |-> cleanupRoom(rooms[id])]
     /\ roomsByCode' = [c \in (DOMAIN roomsByCode) \ goneCodes |-> roomsByCode[c]]
     /\ UNCHANGED nextRoomId
     /\ last' = CleanupCall

(***************************************************************************)
(* _resetRoomStorageForTesting(): rooms.clear(); roomsByCode.clear().  The *)
(* uuids handed out so far stay handed out.                                *)
(***************************************************************************)
_resetRoomStorageForTesting ==
  /\ rooms' = << >>
  /\ roomsByCode' = << >>
  /\ UNCHANGED nextRoomId
  /\ last' = Call("_resetRoomStorageForTesting", NoRoom, 0, NoRoom)

(***************************************************************************)
(* The service driven by arbitrary callers.  Ids, Names and Sockets are    *)
(* the user ids, usernames and socket ids the callers pass, Caps the       *)
(* capacities, Themes the outcomes of the random theme draw, and live the  *)
(* number of rooms the callers keep alive at a time.  The optional         *)
(* parameter socketId of updateUserConnection is undefined when a caller   *)
(* leaves it out.                                                          *)
(***************************************************************************)
UserArgs(Ids, Names, Sockets) ==
  { User(id, n, c, s) : id \in Ids, n \in Names, c \in BOOLEAN, s \in Sockets }

NextWith(Ids, Names, Sockets, Caps, Themes, live) ==
  \/ /\ nextRoomId <= MaxRooms
     /\ Cardinality(DOMAIN rooms) < live
     /\ \E host \in UserArgs(Ids, Names, Sockets), maxPlayers \in Caps,
           draws \in DrawRuns :
          createRoom(host, maxPlayers, draws)
     /\ UNCHANGED gateway
  \/ /\ \E roomCode \in CodeArgs, user \in UserArgs(Ids, Names, Sockets) :
          joinRoom(roomCode, user)
     /\ UNCHANGED gateway
  \/ /\ \E roomCode \in CodeArgs, userId \in Ids :
          leaveRoom(roomCode, userId)
     /\ UNCHANGED gateway
  \/ /\ \E roomCode \in CodeArgs, userId \in Ids, themeIndex \in Themes :
          startGame(roomCode, userId, themeIndex)
     /\ UNCHANGED gateway
  \/ /\ \E roomId \in 1 .. MaxRooms, userId \in Ids, isConnected \in BOOLEAN,
           socketId \in { IF s = NoKey THEN NoSocket ELSE s : s \in Sockets } :
          updateUserConnection(roomId, userId, isConnected, socketId)
     /\ UNCHANGED gateway
  \/ /\ cleanupDisconnectedUsers
     /\ UNCHANGED gateway
  \/ /\ _resetRoomStorageForTesting
     /\ UNCHANGED gateway

\* One room at a time, with every user and capacity; the theme draw takes its
\* least and its greatest outcome.
Next ==
  NextWith(UserIds, {"Host"}, {NoSocket}, CapacityArgs,
           {0, Len(themes) - 1}, MaxLive)

Spec == Init /\ [][Next]_vars

\* Several rooms side by side, with fewer users and one theme draw.
NextRooms ==
  NextWith(1 .. RoomsUsers, {"Host"}, {NoSocket}, {DefaultMaxPlayers}, {0}, MaxRooms)

SpecRooms == Init /\ [][NextRooms]_vars

\* One room at a time, with every outcome of the theme draw.
NextThemes ==
  NextWith(1 .. RoomsUsers, {"Host"}, {NoSocket}, {DefaultMaxPlayers},
           ThemeIndexes, MaxLive)

SpecThemes == Init /\ [][NextThemes]_vars

\* usernames and socket ids the callers of SpecUsers pass (roomService tests)
Usernames == {"User", "Updated User"}
SocketArgs == {NoKey, NoSocket, "socket-id"}

\* One room at a time, with two usernames and a socket id.
NextUsers ==
  NextWith(1 .. RoomsUsers, Usernames, SocketArgs,
           {MaxCapacityArg, DefaultMaxPlayers}, {0}, MaxLive)

SpecUsers == Init /\ [][NextUsers]_vars

(***************************************************************************)
(* createRoom with its do-while loop step by step: the call, then one step *)
(* for every drawn code, the last of which builds the room and returns.    *)
(* Nothing else runs while the loop does.  tries counts the draws of the   *)
(* call up to MaxDraws.                                                    *)
(***************************************************************************)
LoopCall(host, maxPlayers, roomCode, tries) ==
  [op |-> "createRoom.loop", host |-> host, maxPlayers |-> maxPlayers,
   roomCode |-> roomCode, tries |-> tries]

InLoop == last.op = "createRoom.loop"

\* createRoom is called: let roomCode
callCreateRoom(host, maxPlayers) ==
  /\ ~InLoop
  /\ last' = LoopCall(host, maxPlayers, << >>, 0)
  /\ UNCHANGED << rooms, roomsByCode, nextRoomId, gateway >>

\* do { roomCode = generateRoomCode() } while (roomsByCode.has(roomCode)),
\* one round, and what follows the loop when the code is free
drawCode(k) ==
  /\ InLoop
  /\ LET roomCode == generateRoomCode(k) IN
       IF roomsByCodeHas(roomCode)
       THEN /\ last' = LoopCall(last.host, last.maxPlayers, roomCode,
                                IF last.tries < MaxDraws THEN last.tries + 1
                                ELSE MaxDraws)
            /\ UNCHANGED << rooms, roomsByCode, nextRoomId, gateway >>
       ELSE /\ createRoom(last.host, last.maxPlayers, << roomCode >>)
            /\ UNCHANGED gateway

NextLoop ==
  \/ /\ nextRoomId <= MaxRooms
     /\ \E host \in UserArgs(1 .. RoomsUsers, {"Host"}, {NoSocket}) :
          callCreateRoom(host, DefaultMaxPlayers)
  \/ \E k \in 1 .. NumCodes : drawCode(k)
  \/ /\ ~InLoop
     /\ \E roomCode \in GeneratedCodes, userId \in 1 .. RoomsUsers :
          leaveRoom(roomCode, userId)
     /\ UNCHANGED gateway

\* every code of the generator is drawn again and again
SpecLoop ==
  /\ Init
  /\ [][NextLoop]_vars
  /\ \A k \in 1 .. NumCodes : WF_vars(drawCode(k))

(***************************************************************************)
(* getGameState(roomId) and getTimeRemaining(room)                         *)
(***************************************************************************)
NoTime == 0

\* a switch that gives the two timed phases the same duration
getTimeRemainingOnePhase(room) ==
  IF room.status \in {COMPOSING, VOTING} THEN ComposingSeconds ELSE NoTime

\* the switch on room.status; NoTime for undefined
getTimeRemaining(room) ==
  IF room.status = COMPOSING THEN ComposingSeconds
  ELSE IF room.status = VOTING THEN VotingSeconds
  ELSE NoTime

\* the object getGameState returns for a room that exists
GameStateOf(room) ==
  [roomId |-> room.id, status |-> room.status, theme |-> room.theme,
   timeRemaining |-> getTimeRemaining(room)]

\* the record of a getGameState call: roomId is the argument, ret the id of
\* the room found (NoRoom for none), gameState the sequence of the one object
\* returned, empty for undefined
GameStateCall(roomId, ret, gameState) ==
  [op |-> "getGameState", roomId |-> roomId, ret |-> ret,
   gameState |-> gameState]

getGameState(roomId) ==
  LET id == getRoomById(roomId) IN
  /\ UNCHANGED << rooms, roomsByCode, nextRoomId, gateway >>
  /\ last' = IF id = NoRoom THEN GameStateCall(roomId, NoRoom, << >>)
             ELSE GameStateCall(roomId, id, << GameStateOf(rooms[id]) >>)

\* the rooms getGameState is applied to: one room in any status and with
\* any theme or none (a Room is handed out by reference and its status is a
\* RoomStatus)
ProjectedRooms ==
  { [id |-> 1, code |-> generateRoomCode(1), status |-> s, hostId |-> 1,
     players |-> << User(1, "Host", TRUE, NoSocket) >>,
     maxPlayers |-> DefaultMaxPlayers, theme |-> t] :
      s \in RoomStatus,
      t \in {NoTheme} \cup { themes[i] : i \in 1 .. Len(themes) } }

InitProjection ==
  /\ \E room \in ProjectedRooms :
       /\ rooms = MapSet(<< >>, room.id, room)
       /\ roomsByCode = MapSet(<< >>, room.code, room.id)
  /\ nextRoomId = 2
  /\ last = Call("none", NoRoom, 0, NoRoom)
  /\ sockets = [s \in SocketIds |-> "new"]
  /\ joined = [s \in SocketIds |-> {}]
  /\ request = Request("none", NoSocket, FALSE)
  /\ emitted = << >>

\* getGameState applied to the room ids that exist and to one that does not
NextProjection == \E roomId \in 1 .. MaxRooms : getGameState(roomId)

SpecProjection == InitProjection /\ [][NextProjection]_vars

(***************************************************************************)
(* formatRoomCode, in the server's utils and in the client's lib.  A value *)
(* of JavaScript is a string with its characters, null or undefined; a     *)
(* call ends with a value or with a TypeError.                             *)
(***************************************************************************)
String(chars) == [kind |-> "string", chars |-> chars]
Null == [kind |-> "null", chars |-> << >>]
Undefined == [kind |-> "undefined", chars |-> << >>]
TypeError == [kind |-> "TypeError", chars |-> << >>]

\* code.slice(0, 3) and code.slice(3)
sliceTo3(chars) == SubSeq(chars, 1, IF Len(chars) < 3 THEN Len(chars) ELSE 3)
sliceFrom3(chars) == SubSeq(chars, 4, Len(chars))

\* src/server/src/utils/roomUtils.ts: !code holds for null, undefined and ''
formatRoomCode(code) ==
  IF code.kind # "string" \/ code.chars = << >> \/ Len(code.chars) # CodeLength
  THEN code
  ELSE String(sliceTo3(code.chars) \o << " " >> \o sliceFrom3(code.chars))

\* src/beatbattles/lib/utils/roomUtils.ts: code.length throws for null and
\* undefined
formatRoomCodeLib(code) ==
  IF code.kind # "string" THEN TypeError
  ELSE IF Len(code.chars) # CodeLength THEN code
  ELSE String(sliceTo3(code.chars) \o << "-" >> \o sliceFrom3(code.chars))

\* the values formatRoomCode is called with
FormatArgs ==
  {Null, Undefined}
    \cup { String(chars) :
             chars \in UNION { [1 .. n -> {"A", "1"}] : n \in 0 .. MaxFormatLen } }

\* the record of a call of one of the two copies
FormatCall(op, code, ret) == [op |-> op, code |-> code, ret |-> ret]

InitFormat ==
  /\ rooms = << >>
  /\ roomsByCode = << >>
  /\ nextRoomId = 1
  /\ \E code \in FormatArgs : last = FormatCall("none", code, code)
  /\ sockets = [s \in SocketIds |-> "new"]
  /\ joined = [s \in SocketIds |-> {}]
  /\ request = Request("none", NoSocket, FALSE)
  /\ emitted = << >>

NextFormat ==
  \/ /\ last' = FormatCall("formatRoomCode", last.code, formatRoomCode(last.code))
     /\ UNCHANGED << rooms, roomsByCode, nextRoomId, gateway >>
  \/ /\ last' = FormatCall("formatRoomCodeLib", last.code,
                           formatRoomCodeLib(last.code))
     /\ UNCHANGED << rooms, roomsByCode, nextRoomId, gateway >>

SpecFormat == InitFormat /\ [][NextFormat]_vars

(***************************************************************************)
(* The socket controller.  A payload is the sequence of the one object the *)
(* client sent, or the empty sequence when it sent none; an event that     *)
(* carries a room, a game state or an error code has it in room, gameState *)
(* or code, and is empty there otherwise.                                  *)
(***************************************************************************)
ROOM_CREATED == "room_created"
ROOM_UPDATED == "room_updated"
GAME_STATE_UPDATED == "game_state_updated"
COMPOSITION_UPDATED == "composition_updated"
VOTE_SUBMITTED == "vote_submitted"
ERROR == "error"

NoCode == "<none>"
NoData == "<undefined>"

\* what the clients send as composition and as vote
DataArgs == {NoData, "composition-1"}

\* an emitted event and the sockets it is emitted to
Emit(event, to, code, room, gameState, data) ==
  [event |-> event, to |-> to, code |-> code, room |-> room,
   gameState |-> gameState, data |-> data]

\* socket.emit(SocketEvents.ERROR, { code, message })
EmitError(socket, code) == Emit(ERROR, {socket}, code, << >>, << >>, NoData)

\* io.to(roomId): the sockets that are in the socket.io room roomId
to(j, roomId) == { s \in SocketIds : roomId \in j[s] }

\* io.to(room.id).emit(SocketEvents.ROOM_UPDATED, room)
EmitRoomUpdated(j, room) ==
  Emit(ROOM_UPDATED, to(j, room.id), NoCode, << room >>, << >>, NoData)

\* a handler that only emits an error to its socket: the catch block, or the
\* early return for a room that is not found
Fails(event, socket, code) ==
  /\ UNCHANGED << rooms, roomsByCode, nextRoomId, last, sockets, joined >>
  /\ request' = Request(event, socket, TRUE)
  /\ emitted' = << EmitError(socket, code) >>

\* io.on('connection'): the handlers are registered
onConnection(socket) ==
  /\ sockets[socket] = "new"
  /\ sockets' = [sockets EXCEPT ![socket] = "open"]
  /\ request' = Request("connection", socket, FALSE)
  /\ emitted' = << >>
  /\ UNCHANGED << rooms, roomsByCode, nextRoomId, last, joined >>

\* socket.on('disconnect'): socket.io has taken the socket out of its rooms;
\* the handler only logs
onDisconnect(socket) ==
  /\ sockets[socket] = "open"
  /\ sockets' = [sockets EXCEPT ![socket] = "closed"]
  /\ joined' = [joined EXCEPT ![socket] = {}]
  /\ request' = Request("disconnect", socket, FALSE)
  /\ emitted' = << >>
  /\ UNCHANGED << rooms, roomsByCode, nextRoomId, last >>

\* socket.on(SocketEvents.CREATE_ROOM)
onCreateRoom(socket, payload, draws) ==
  /\ sockets[socket] = "open"
  /\ IF payload = << >>
     THEN Fails("create_room", socket, "CREATE_ROOM_ERROR")
     ELSE LET user == [payload[1].user EXCEPT !.isConnected = TRUE,
                                             !.socketId = socket]
          IN /\ createRoom(user, payload[1].maxPlayers, draws)
             /\ joined' = [joined EXCEPT ![socket] = @ \cup {last'.ret}]
             /\ emitted' =
                  << Emit(ROOM_CREATED, {socket}, NoCode,
                          << rooms'[last'.ret] >>, << >>, NoData),
                     EmitRoomUpdated(joined', rooms'[last'.ret]) >>
             /\ request' = Request("create_room", socket, FALSE)
             /\ UNCHANGED sockets

\* socket.on(SocketEvents.JOIN_ROOM)
onJoinRoom(socket, payload) ==
  /\ sockets[socket] = "open"
  /\ IF payload = << >>
     THEN Fails("join_room", socket, "JOIN_ROOM_ERROR")
     ELSE LET updatedUser == [payload[1].user EXCEPT !.isConnected = TRUE,
                                                    !.socketId = socket]
          IN /\ joinRoom(payload[1].roomCode, updatedUser)
             /\ UNCHANGED sockets
             /\ IF last'.ret = NoRoom
                THEN /\ UNCHANGED joined
                     /\ request' = Request("join_room", socket, TRUE)
                     /\ emitted' = << EmitError(socket, "JOIN_ROOM_ERROR") >>
                ELSE LET room == rooms'[last'.ret] IN
                     /\ joined' = [joined EXCEPT ![socket] = @ \cup {room.id}]
                     /\ request' = Request("join_room", socket, FALSE)
                     /\ emitted' =
                          << EmitRoomUpdated(joined', room) >>
                          \o ( IF room.status # WAITING
                               THEN << Emit(GAME_STATE_UPDATED, {socket}, NoCode,
                                            << >>, << GameStateOf(room) >>,
                                            NoData) >>
                               ELSE << >> )

\* a leave_room that emits the room it looked up before the user left
onLeaveRoomStale(socket, payload) ==
  /\ sockets[socket] = "open"
  /\ IF payload = << >>
     THEN Fails("leave_room", socket, "LEAVE_ROOM_ERROR")
     ELSE LET roomBefore == getRoomByCode(payload[1].roomCode) IN
          IF roomBefore = NoRoom
          THEN Fails("leave_room", socket, "LEAVE_ROOM_ERROR")
          ELSE /\ leaveRoom(payload[1].roomCode, payload[1].userId)
               /\ joined' = [joined EXCEPT ![socket] = @ \ {roomBefore}]
               /\ request' = Request("leave_room", socket, FALSE)
               /\ emitted' =
                    IF last'.ret # NoRoom
                    THEN << EmitRoomUpdated(joined', rooms[roomBefore]) >>
                    ELSE << >>
               /\ UNCHANGED sockets

\* socket.on(SocketEvents.LEAVE_ROOM)
onLeaveRoom(socket, payload) ==
  /\ sockets[socket] = "open"
  /\ IF payload = << >>
     THEN Fails("leave_room", socket, "LEAVE_ROOM_ERROR")
     ELSE LET roomBefore == getRoomByCode(payload[1].roomCode) IN
          IF roomBefore = NoRoom
          THEN Fails("leave_room", socket, "LEAVE_ROOM_ERROR")
          ELSE /\ leaveRoom(payload[1].roomCode, payload[1].userId)
               /\ joined' = [joined EXCEPT ![socket] = @ \ {roomBefore}]
               /\ request' = Request("leave_room", socket, FALSE)
               /\ emitted' =
                    IF last'.ret # NoRoom
                    THEN << EmitRoomUpdated(joined', rooms'[last'.ret]) >>
                    ELSE << >>
               /\ UNCHANGED sockets

\* a start_game that sends the game state to the socket that asked only
onStartGameUnicast(socket, payload, themeIndex) ==
  /\ sockets[socket] = "open"
  /\ IF payload = << >>
     THEN Fails("start_game", socket, "START_GAME_ERROR")
     ELSE /\ startGame(payload[1].roomCode, payload[1].userId, themeIndex)
          /\ UNCHANGED << sockets, joined >>
          /\ IF last'.ret = NoRoom
             THEN /\ request' = Request("start_game", socket, TRUE)
                  /\ emitted' = << EmitError(socket, "START_GAME_ERROR") >>
             ELSE LET room == rooms'[last'.ret] IN
                  /\ request' = Request("start_game", socket, FALSE)
                  /\ emitted' =
                       << EmitRoomUpdated(joined, room),
                          Emit(GAME_STATE_UPDATED, {socket}, NoCode,
                               << >>, << GameStateOf(room) >>, NoData) >>

\* socket.on(SocketEvents.START_GAME)
onStartGame(socket, payload, themeIndex) ==
  /\ sockets[socket] = "open"
  /\ IF payload = << >>
     THEN Fails("start_game", socket, "START_GAME_ERROR")
     ELSE /\ startGame(payload[1].roomCode, payload[1].userId, themeIndex)
          /\ UNCHANGED << sockets, joined >>
          /\ IF last'.ret = NoRoom
             THEN /\ request' = Request("start_game", socket, TRUE)
                  /\ emitted' = << EmitError(socket, "START_GAME_ERROR") >>
             ELSE LET room == rooms'[last'.ret] IN
                  /\ request' = Request("start_game", socket, FALSE)
                  /\ emitted' =
                       << EmitRoomUpdated(joined, room),
                          Emit(GAME_STATE_UPDATED, to(joined, room.id), NoCode,
                               << >>, << GameStateOf(room) >>, NoData) >>

\* socket.on(SocketEvents.COMPOSITION_UPDATED): the log line after the emit
\* reads composition.userId and throws when the payload has no composition
onCompositionUpdated(socket, payload) ==
  /\ sockets[socket] = "open"
  /\ IF payload = << >>
     THEN Fails("composition_updated", socket, "COMPOSITION_UPDATE_ERROR")
     ELSE LET room == getRoomByCode(payload[1].roomCode)
              composition == payload[1].composition
          IN IF room = NoRoom
             THEN Fails("composition_updated", socket, "COMPOSITION_UPDATE_ERROR")
             ELSE /\ UNCHANGED << rooms, roomsByCode, nextRoomId, last,
                                  sockets, joined >>
                  /\ request' =
                       Request("composition_updated", socket, composition = NoData)
                  /\ emitted' =
                       << Emit(COMPOSITION_UPDATED, to(joined, room), NoCode,
                               << >>, << >>, composition) >>
                       \o ( IF composition = NoData
                            THEN << EmitError(socket, "COMPOSITION_UPDATE_ERROR") >>
                            ELSE << >> )

\* socket.on(SocketEvents.SUBMIT_VOTE): the log line after the emit reads
\* vote.userId and throws when the payload has no vote
onSubmitVote(socket, payload) ==
  /\ sockets[socket] = "open"
  /\ IF payload = << >>
     THEN Fails("submit_vote", socket, "SUBMIT_VOTE_ERROR")
     ELSE LET room == getRoomByCode(payload[1].roomCode)
              vote == payload[1].vote
          IN IF room = NoRoom
             THEN Fails("submit_vote", socket, "SUBMIT_VOTE_ERROR")
             ELSE /\ UNCHANGED << rooms, roomsByCode, nextRoomId, last,
                                  sockets, joined >>
                  /\ request' = Request("submit_vote", socket, vote = NoData)
                  /\ emitted' =
                       << Emit(VOTE_SUBMITTED, {socket}, NoCode,
                               << >>, << >>, vote) >>
                       \o ( IF vote = NoData
                            THEN << EmitError(socket, "SUBMIT_VOTE_ERROR") >>
                            ELSE << >> )

\* the payloads the clients send for the users Ids; the user of a payload
\* has an id
CreateRoomPayloads(Ids) ==
  { << >> } \cup { << [user |-> User(id, "Host", FALSE, NoSocket),
                       maxPlayers |-> DefaultMaxPlayers] >> : id \in Ids }

JoinRoomPayloads(Ids) ==
  { << >> } \cup { << [roomCode |-> c,
                       user |-> User(id, "Host", FALSE, NoSocket)] >> :
                     c \in GeneratedCodes, id \in Ids }

LeaveRoomPayloads(Ids) ==
  { << >> } \cup { << [roomCode |-> c, userId |-> id] >> :
                     c \in GeneratedCodes, id \in Ids }

CompositionPayloads ==
  { << >> } \cup { << [roomCode |-> c, composition |-> d] >> :
                     c \in GeneratedCodes, d \in DataArgs }

VotePayloads ==
  { << >> } \cup { << [roomCode |-> c, vote |-> d] >> :
                     c \in GeneratedCodes, d \in DataArgs }

\* the handlers that create, fill, empty and start rooms, for the users Ids
\* and with live rooms at a time
Membership(Ids, live) ==
  \/ \E socket \in SocketIds : onConnection(socket)
  \/ \E socket \in SocketIds : onDisconnect(socket)
  \/ /\ nextRoomId <= MaxRooms
     /\ Cardinality(DOMAIN rooms) < live
     /\ \E socket \in SocketIds, payload \in CreateRoomPayloads(Ids),
           draws \in DrawRuns :
          onCreateRoom(socket, payload, draws)
  \/ \E socket \in SocketIds, payload \in JoinRoomPayloads(Ids) :
       onJoinRoom(socket, payload)
  \/ \E socket \in SocketIds, payload \in LeaveRoomPayloads(Ids) :
       onLeaveRoom(socket, payload)
  \/ \E socket \in SocketIds, payload \in LeaveRoomPayloads(Ids) :
       onStartGame(socket, payload, 0)

\* The controller driven by the clients of two sockets, with two rooms at a
\* time; the service is called by the handlers only.
NextGateway == Membership(1 .. GatewayUsers, MaxRooms)

SpecGateway == Init /\ [][NextGateway]_vars

\* The controller with one room at a time and the two events of the game.
NextEvents ==
  \/ Membership(1 .. RoomsUsers, MaxLive)
  \/ \E socket \in SocketIds, payload \in CompositionPayloads :
       onCompositionUpdated(socket, payload)
  \/ \E socket \in SocketIds, payload \in VotePayloads :
       onSubmitVote(socket, payload)

SpecEvents == Init /\ [][NextEvents]_vars

(***************************************************************************)
(* Properties.                                                             *)
(***************************************************************************)
\* the ids of the players of a room
PlayerIds(room) == { room.players[i].id : i \in 1 .. Len(room.players) }

\* the order of the phases: Waiting < Composing < Voting < Results
PhaseRank(status) ==
  CASE status = WAITING -> 0
    [] status = COMPOSING -> 1
    [] status = VOTING -> 2
    [] status = RESULTS -> 3

\* C1: in every reachable state the hostId of every stored room is the id of
\* one of the players of that room.
C1_HostIsMember ==
  \A id \in DOMAIN rooms : rooms[id].hostId \in PlayerIds(rooms[id])

\* C2: in every reachable state no stored room has more players than its
\* maxPlayers, whatever capacity createRoom was given.
C2_WithinCapacity ==
  \A id \in DOMAIN rooms : Len(rooms[id].players) <= rooms[id].maxPlayers

\* C3: a stored room never has an empty players list, and a room leaves the
\* storage only in a step that removes all of its players: a leaveRoom of
\* the one user it holds, or a sweep when none of its players is connected.
C3_NoEmptyRoom == \A id \in DOMAIN rooms : Len(rooms[id].players) >= 1

C3_RemovedWithLastPlayer ==
  [][ /\ C3_NoEmptyRoom'
      /\ \A id \in (DOMAIN rooms) \ (DOMAIN rooms') :
           \/ /\ last'.op = "leaveRoom"
              /\ last'.roomId = id
              /\ PlayerIds(rooms[id]) = {last'.userId}
           \/ /\ last'.op = "cleanupDisconnectedUsers"
              /\ \A i \in 1 .. Len(rooms[id].players) :
                   ~rooms[id].players[i].isConnected ]_vars

\* C3, amended: a stored room never has an empty players list, and a room
\* leaves the storage only in a step that removes all of its players (a
\* leaveRoom of the one user it holds, or a sweep when none of its players is
\* connected) or in a _resetRoomStorageForTesting, which clears the storage
\* whatever the rooms hold.
C3_RemovedWithLastPlayerOrReset ==
  [][ /\ C3_NoEmptyRoom'
      /\ \A id \in (DOMAIN rooms) \ (DOMAIN rooms') :
           \/ /\ last'.op = "leaveRoom"
              /\ last'.roomId = id
              /\ PlayerIds(rooms[id]) = {last'.userId}
           \/ /\ last'.op = "cleanupDisconnectedUsers"
              /\ \A i \in 1 .. Len(rooms[id].players) :
                   ~rooms[id].players[i].isConnected
           \/ /\ last'.op = "_resetRoomStorageForTesting"
              /\ rooms' = << >>
              /\ roomsByCode' = << >> ]_vars

\* C3 witness: a leaveRoom has just removed the last player of a room, and
\* the room is gone.
C3_Witness ==
  /\ last.op = "leaveRoom"
  /\ last.roomId # NoRoom
  /\ last.ret = NoRoom
  /\ last.roomId \notin DOMAIN rooms

\* C4: no two stored rooms share a code, and the code of a room that
\* createRoom adds is held by no room stored before the call.
C4_CodesDistinct ==
  \A a \in DOMAIN rooms : \A b \in DOMAIN rooms :
    a # b => rooms[a].code # rooms[b].code

C4_UniqueCodes ==
  [][ /\ C4_CodesDistinct'
      /\ \A id \in (DOMAIN rooms') \ (DOMAIN rooms) :
           \A other \in DOMAIN rooms : rooms[other].code # rooms'[id].code ]_vars

\* C4 witness: createRoom has just added a room next to a room that is
\* still stored.
C4_Witness ==
  /\ last.op = "createRoom"
  /\ last.ret \in DOMAIN rooms
  /\ Cardinality(DOMAIN rooms) >= 2

\* C5: a startGame on a room whose status is not Waiting returns undefined
\* and leaves the status and the theme of the room unchanged.
C5_StartOnlyFromWaiting ==
  [][ ( /\ last'.op = "startGame"
        /\ last'.roomId \in DOMAIN rooms
        /\ rooms[last'.roomId].status # WAITING )
      => ( /\ last'.ret = NoRoom
           /\ last'.roomId \in DOMAIN rooms'
           /\ rooms'[last'.roomId].status = rooms[last'.roomId].status
           /\ rooms'[last'.roomId].theme = rooms[last'.roomId].theme ) ]_vars

\* C6: in every step the status of a room that stays stored does not move
\* backward in the order Waiting < Composing < Voting < Results, and a room
\* that createRoom adds is Waiting.
C6_PhaseForward ==
  [][ /\ \A id \in (DOMAIN rooms) \cap (DOMAIN rooms') :
           PhaseRank(rooms'[id].status) >= PhaseRank(rooms[id].status)
      /\ \A id \in (DOMAIN rooms') \ (DOMAIN rooms) :
           rooms'[id].status = WAITING ]_vars

\* C6 witness: the sweep has just removed players of a room that was
\* Composing, and the room is still stored and Composing.
C6_Witness ==
  /\ last.op = "cleanupDisconnectedUsers"
  /\ \E id \in DOMAIN rooms :
       /\ rooms[id].status = COMPOSING
       /\ Len(rooms[id].players) < MinPlayersToStart

\* the host hostId of a room leaves by leaveRoom(code, userId): the call
\* resolved the room, the user is its host and one of its players
HostLeaves(id) ==
  /\ last'.op = "leaveRoom"
  /\ last'.roomId = id
  /\ rooms[id].hostId = last'.userId
  /\ last'.userId \in PlayerIds(rooms[id])

\* the players of a room other than userId, in their order
Others(players, userId) ==
  LET Stays(p) == p.id # userId IN SelectSeq(players, Stays)

\* C7: when the host leaves a room in which another player is connected,
\* hostId becomes the id of the first player in join order, other than the
\* leaver, that is connected, and players loses the leaver and keeps the
\* others in their order.
C7_HostHandoff ==
  [][ \A id \in DOMAIN rooms :
        ( /\ HostLeaves(id)
          /\ \E i \in 1 .. Len(rooms[id].players) :
               /\ rooms[id].players[i].id # last'.userId
               /\ rooms[id].players[i].isConnected )
        => ( /\ id \in DOMAIN rooms'
             /\ rooms'[id].players = Others(rooms[id].players, last'.userId)
             /\ \E k \in 1 .. Len(rooms[id].players) :
                  /\ rooms'[id].hostId = rooms[id].players[k].id
                  /\ rooms[id].players[k].id # last'.userId
                  /\ rooms[id].players[k].isConnected
                  /\ \A j \in 1 .. (k - 1) :
                       \/ rooms[id].players[j].id = last'.userId
                       \/ ~rooms[id].players[j].isConnected ) ]_vars

\* C7 witness: the host has just left a room whose first remaining player
\* is disconnected, and a later, connected player is the host.
C7_Witness ==
  /\ last.op = "leaveRoom"
  /\ last.hostBefore = last.userId
  /\ last.ret \in DOMAIN rooms
  /\ LET room == rooms[last.ret] IN
       /\ last.userId \notin PlayerIds(room)
       /\ Len(room.players) >= 2
       /\ ~room.players[1].isConnected
       /\ room.players[2].isConnected
       /\ room.hostId = room.players[2].id

\* C8: when the host leaves a room whose remaining players are all
\* disconnected, hostId becomes the id of the first remaining player.
C8_HostFallback ==
  [][ \A id \in DOMAIN rooms :
        ( /\ HostLeaves(id)
          /\ Len(Others(rooms[id].players, last'.userId)) >= 1
          /\ \A i \in 1 .. Len(rooms[id].players) :
               \/ rooms[id].players[i].id = last'.userId
               \/ ~rooms[id].players[i].isConnected )
        => ( /\ id \in DOMAIN rooms'
             /\ rooms'[id].hostId =
                  Others(rooms[id].players, last'.userId)[1].id ) ]_vars

\* C9: a startGame whose code resolves to no room, whose caller is not the
\* host, or whose room has fewer than 2 players returns undefined and leaves
\* every room and both maps as they were.
C9_StartRejected ==
  [][ ( /\ last'.op = "startGame"
        /\ \/ last'.roomId = NoRoom
           \/ /\ last'.roomId \in DOMAIN rooms
              /\ \/ rooms[last'.roomId].hostId # last'.userId
                 \/ Len(rooms[last'.roomId].players) < 2 )
      => ( /\ last'.ret = NoRoom
           /\ rooms' = rooms
           /\ roomsByCode' = roomsByCode ) ]_vars

\* C9 witness: a startGame by a player who is not the host of a Waiting room
\* of two or more players has just been rejected.
C9_Witness ==
  /\ last.op = "startGame"
  /\ last.ret = NoRoom
  /\ last.roomId \in DOMAIN rooms
  /\ LET room == rooms[last.roomId] IN
       /\ room.hostId # last.userId
       /\ last.userId \in PlayerIds(room)
       /\ Len(room.players) >= 2
       /\ room.status = WAITING
       /\ room.theme = NoTheme

\* the theme catalog as a set
ThemeCatalog == { themes[i] : i \in 1 .. Len(themes) }

\* C10: a startGame by the host of a Waiting room of at least 2 players
\* returns the room, sets its status to Composing and its theme to one of
\* the 10 entries of the catalog, and changes neither players nor hostId.
C10_StartSucceeds ==
  [][ \A id \in DOMAIN rooms :
        ( /\ last'.op = "startGame"
          /\ last'.roomId = id
          /\ rooms[id].hostId = last'.userId
          /\ Len(rooms[id].players) >= 2
          /\ rooms[id].status = WAITING )
        => ( /\ last'.ret = id
             /\ id \in DOMAIN rooms'
             /\ rooms'[id].status = COMPOSING
             /\ rooms'[id].theme \in ThemeCatalog
             /\ Cardinality(ThemeCatalog) = 10
             /\ rooms'[id].theme # NoTheme
             /\ rooms'[id].players = rooms[id].players
             /\ rooms'[id].hostId = rooms[id].hostId ) ]_vars

\* C10 witness: the host has just started a Waiting room, which is now
\* Composing with the last theme of the catalog.
C10_Witness ==
  /\ last.op = "startGame"
  /\ last.statusBefore = WAITING
  /\ last.ret \in DOMAIN rooms
  /\ rooms[last.ret].status = COMPOSING
  /\ rooms[last.ret].theme = themes[Len(themes)]
  /\ rooms[last.ret].hostId = last.userId

\* the ids of a list of players, in the order of the list
IdsOf(players) == [i \in 1 .. Len(players) |-> players[i].id]

\* C11: a joinRoom whose code resolves to no room (malformed or unknown),
\* whose room already holds maxPlayers players or more, or whose room is not
\* Waiting returns undefined and leaves every room and both maps as they were.
C11_JoinRejected ==
  [][ ( /\ last'.op = "joinRoom"
        /\ \/ last'.roomId = NoRoom
           \/ /\ last'.roomId \in DOMAIN rooms
              /\ \/ Len(rooms[last'.roomId].players)
                      >= rooms[last'.roomId].maxPlayers
                 \/ rooms[last'.roomId].status # WAITING )
      => ( /\ last'.ret = NoRoom
           /\ rooms' = rooms
           /\ roomsByCode' = roomsByCode ) ]_vars

\* C11 witness: a user who is not in the room has just been refused by a
\* room that has started composing and still has space.
C11_Witness ==
  /\ last.op = "joinRoom"
  /\ last.ret = NoRoom
  /\ last.roomId \in DOMAIN rooms
  /\ LET room == rooms[last.roomId] IN
       /\ room.status = COMPOSING
       /\ Len(room.players) < room.maxPlayers
       /\ last.userId \notin PlayerIds(room)

\* C12: a joinRoom with the id of a user who is already in the room's
\* players returns the room with that player updated in place (same index,
\* username of the call, isConnected true) and with the length of players
\* and the ids and order of all players unchanged.
C12_RejoinInPlace ==
  [][ \A id \in DOMAIN rooms :
        ( /\ last'.op = "joinRoom"
          /\ last'.roomId = id
          /\ last'.userId \in PlayerIds(rooms[id]) )
        => ( /\ last'.ret = id
             /\ id \in DOMAIN rooms'
             /\ IdsOf(rooms'[id].players) = IdsOf(rooms[id].players)
             /\ LET i == findIndex(rooms[id].players, last'.userId) IN
                  /\ rooms'[id].players[i].isConnected
                  /\ rooms'[id].players[i].username = last'.username ) ]_vars

\* C13: createRoom yields players = [host] with hostId = host.id and status
\* Waiting; a successful joinRoom by a user who was not in the room appends
\* that user at the end of players; and in every step the players that
\* remain in a room keep their relative order.
C13_JoinOrder ==
  [][ /\ ( last'.op = "createRoom" /\ last'.ret # NoRoom )
         => ( /\ last'.ret \in DOMAIN rooms'
              /\ last'.ret \notin DOMAIN rooms
              /\ IdsOf(rooms'[last'.ret].players) = << last'.userId >>
              /\ rooms'[last'.ret].hostId = last'.userId
              /\ rooms'[last'.ret].status = WAITING )
      /\ \A id \in DOMAIN rooms :
           ( /\ last'.op = "joinRoom"
             /\ last'.ret = id
             /\ last'.userId \notin PlayerIds(rooms[id]) )
           => ( /\ id \in DOMAIN rooms'
                /\ Len(rooms'[id].players) = Len(rooms[id].players) + 1
                /\ SubSeq(rooms'[id].players, 1, Len(rooms[id].players))
                     = rooms[id].players
                /\ rooms'[id].players[Len(rooms'[id].players)].id = last'.userId
                /\ rooms'[id].players[Len(rooms'[id].players)].username
                     = last'.username )
      /\ \A id \in (DOMAIN rooms) \cap (DOMAIN rooms') :
           \A i, j \in 1 .. Len(rooms'[id].players) :
             ( /\ i < j
               /\ findIndex(rooms[id].players, rooms'[id].players[i].id) >= 1
               /\ findIndex(rooms[id].players, rooms'[id].players[j].id) >= 1 )
             => findIndex(rooms[id].players, rooms'[id].players[i].id)
                  < findIndex(rooms[id].players, rooms'[id].players[j].id)
    ]_vars

\* C13 witness: a third user has just joined a room of two and stands last,
\* behind the host and the second player.
C13_Witness ==
  /\ last.op = "joinRoom"
  /\ last.ret \in DOMAIN rooms
  /\ last.lenBefore = 2
  /\ LET room == rooms[last.ret] IN
       /\ Len(room.players) = 3
       /\ room.players[3].id = last.userId
       /\ room.players[1].id = room.hostId
       /\ room.status = WAITING

\* C14: a leaveRoom for a user who is not in the room's players returns the
\* room and changes no room and neither map; and after any leaveRoom that
\* returns the room the user is not in its players, so that a second
\* leaveRoom for the same user is that no-op.
C14_LeaveIdempotent ==
  [][ \A id \in DOMAIN rooms :
        /\ ( /\ last'.op = "leaveRoom"
             /\ last'.roomId = id
             /\ last'.userId \notin PlayerIds(rooms[id]) )
           => ( /\ last'.ret = id
                /\ rooms' = rooms
                /\ roomsByCode' = roomsByCode )
        /\ ( /\ last'.op = "leaveRoom"
             /\ last'.roomId = id
             /\ last'.ret = id )
           => ( /\ id \in DOMAIN rooms'
                /\ last'.userId \notin PlayerIds(rooms'[id]) ) ]_vars

\* C14 witness: a leaveRoom for a user who is not in a room of two players
\* has just returned the room, with both players still in it.
C14_Witness ==
  /\ last.op = "leaveRoom"
  /\ last.ret \in DOMAIN rooms
  /\ last.lenBefore = 2
  /\ Len(rooms[last.ret].players) = 2
  /\ last.userId \notin PlayerIds(rooms[last.ret])

C16_CleanupSweep ==
  [][ ( last'.op = "cleanupDisconnectedUsers" )
      => /\ \A id \in DOMAIN rooms' :
              \A i \in 1 .. Len(rooms'[id].players) :
                rooms'[id].players[i].isConnected
         /\ \A id \in DOMAIN rooms :
              IF \A i \in 1 .. Len(rooms[id].players) :
                   ~ rooms[id].players[i].isConnected
              THEN /\ id \notin DOMAIN rooms'
                   /\ rooms[id].code \notin DOMAIN roomsByCode'
              ELSE /\ id \in DOMAIN rooms'
                   /\ rooms[id].code \in DOMAIN roomsByCode'
                   /\ roomsByCode'[rooms[id].code] = id
                   /\ rooms'[id].players = filterConnected(rooms[id].players)
                   /\ ( /\ rooms[id].hostId \in PlayerIds(rooms[id])
                        /\ rooms[id].hostId \notin PlayerIds(rooms'[id]) )
                      => rooms'[id].hostId = rooms'[id].players[1].id ]_vars

\* C16 witness: a sweep has just taken the host out of a room of three and
\* left two connected players, of whom the one who joined first, and has the
\* greater id, is the host now.  (The host changed, so the sweep removed a
\* player; two are left, so the room held all three users and its host was
\* one of them.)
C16_Witness ==
  /\ last.op = "cleanupDisconnectedUsers"
  /\ \E id \in DOMAIN rooms :
       /\ id \in DOMAIN last.hostsBefore
       /\ Len(rooms[id].players) = 2
       /\ last.hostsBefore[id] \notin PlayerIds(rooms[id])
       /\ rooms[id].hostId # last.hostsBefore[id]
       /\ rooms[id].hostId = rooms[id].players[1].id
       /\ rooms[id].players[1].id > rooms[id].players[2].id
       /\ rooms[id].players[1].isConnected
       /\ rooms[id].players[2].isConnected
       /\ roomsByCode[rooms[id].code] = id

\* C17: every socket is in the socket.io room of at most one room.
C17_OneRoomPerSocket ==
  \A s \in SocketIds : Cardinality(joined[s]) <= 1

\* the sockets the players of a room are bound to
BoundSockets(room) ==
  { room.players[i].socketId : i \in 1 .. Len(room.players) }

\* C18: a socket is in the socket.io room of a room if and only if the
\* service holds that room with a player whose socketId is that socket; and
\* no connected player is bound to a socket that has disconnected.
C18_GroupIffBound ==
  /\ \A s \in SocketIds, id \in 1 .. MaxRooms :
       id \in joined[s]
         <=> ( id \in DOMAIN rooms /\ s \in BoundSockets(rooms[id]) )
  /\ \A s \in SocketIds, id \in DOMAIN rooms :
       sockets[s] = "closed"
         => \A i \in 1 .. Len(rooms[id].players) :
              rooms[id].players[i].socketId = s
                => ~ rooms[id].players[i].isConnected

\* the error code of every event
ErrorCode(event) ==
  CASE event = "create_room" -> "CREATE_ROOM_ERROR"
    [] event = "join_room" -> "JOIN_ROOM_ERROR"
    [] event = "leave_room" -> "LEAVE_ROOM_ERROR"
    [] event = "start_game" -> "START_GAME_ERROR"
    [] event = "composition_updated" -> "COMPOSITION_UPDATE_ERROR"
    [] event = "submit_vote" -> "SUBMIT_VOTE_ERROR"
    [] OTHER -> NoCode

\* C19: a join_room, leave_room, start_game, composition_updated or
\* submit_vote that fails emits exactly one event, the error with the code of
\* that event, to the socket that sent it, and changes no room and neither
\* map.
C19_OneErrorOnly ==
  [][ ( /\ request'.failed
        /\ request'.event \in {"join_room", "leave_room", "start_game",
                               "composition_updated", "submit_vote"} )
      => ( /\ emitted' = << EmitError(request'.socket, ErrorCode(request'.event)) >>
           /\ rooms' = rooms
           /\ roomsByCode' = roomsByCode ) ]_vars

\* C20: after a create_room, join_room or start_game that succeeds, and after
\* a leave_room that returns the room, one room_updated with the room as the
\* service has it now is emitted to the sockets that are then in the
\* socket.io room of that room, the sender among them for create_room and
\* join_room; start_game also emits game_state_updated to the same sockets,
\* and create_room emits room_created to the sender alone.
C20_Broadcasts ==
  [][ ( /\ ~ request'.failed
        /\ request'.event \in {"create_room", "join_room", "start_game",
                               "leave_room"}
        /\ last'.ret # NoRoom )
      => LET id == last'.ret
             group == { s \in SocketIds : id \in joined'[s] }
             sent(event) == { i \in 1 .. Len(emitted') : emitted'[i].event = event }
         IN /\ id \in DOMAIN rooms'
            /\ Cardinality(sent(ROOM_UPDATED)) = 1
            /\ \A i \in sent(ROOM_UPDATED) :
                 /\ emitted'[i].to = group
                 /\ emitted'[i].room = << rooms'[id] >>
            /\ ( request'.event \in {"create_room", "join_room"} )
                 => request'.socket \in group
            /\ ( request'.event = "start_game" )
                 => /\ Cardinality(sent(GAME_STATE_UPDATED)) = 1
                    /\ \A i \in sent(GAME_STATE_UPDATED) :
                         /\ emitted'[i].to = group
                         /\ emitted'[i].gameState = << GameStateOf(rooms'[id]) >>
                         /\ emitted'[i].gameState[1].status = COMPOSING
            /\ ( request'.event = "create_room" )
                 => /\ Cardinality(sent(ROOM_CREATED)) = 1
                    /\ \A i \in sent(ROOM_CREATED) :
                         /\ emitted'[i].to = {request'.socket}
                         /\ emitted'[i].room = << rooms'[id] >>
            /\ ( request'.event # "create_room" ) => sent(ROOM_CREATED) = {}
    ]_vars

\* C20 witness: a start_game has just succeeded in a room that has both
\* sockets in its socket.io room, and room_updated and game_state_updated
\* went to both.
C20_Witness ==
  /\ request.event = "start_game"
  /\ ~ request.failed
  /\ last.ret \in DOMAIN rooms
  /\ rooms[last.ret].status = COMPOSING
  /\ Len(emitted) = 2
  /\ emitted[1].event = ROOM_UPDATED
  /\ emitted[1].to = SocketIds
  /\ emitted[2].event = GAME_STATE_UPDATED
  /\ emitted[2].to = SocketIds

\* C21: getGameState changes no room and neither map; for a room that exists
\* it returns the room's id, status and theme with timeRemaining 300 when
\* the status is Composing, 120 when it is Voting and none when it is Waiting
\* or Results; for an unknown room id it returns undefined.
C21_Projection ==
  [][ ( last'.op = "getGameState" )
      => /\ rooms' = rooms
         /\ roomsByCode' = roomsByCode
         /\ IF last'.roomId \in DOMAIN rooms
            THEN LET room == rooms[last'.roomId] IN
                 /\ last'.ret = room.id
                 /\ last'.gameState =
                      << [roomId |-> room.id, status |-> room.status,
                          theme |-> room.theme,
                          timeRemaining |->
                            IF room.status = COMPOSING THEN 300
                            ELSE IF room.status = VOTING THEN 120
                            ELSE NoTime] >>
            ELSE /\ last'.ret = NoRoom
                 /\ last'.gameState = << >> ]_vars

\* C21 witness: getGameState has just returned 120 seconds for a room that
\* is Voting on a theme.
C21_Witness ==
  /\ last.op = "getGameState"
  /\ last.ret \in DOMAIN rooms
  /\ rooms[last.ret].status = VOTING
  /\ rooms[last.ret].theme # NoTheme
  /\ last.gameState[1].timeRemaining = 120
  /\ last.gameState[1].theme = rooms[last.ret].theme

\* C22: formatRoomCode, in either copy, returns for a string of 6 characters
\* its first 3 characters, one separator and its last 3 characters, and for
\* every other value, the empty string, null and undefined among them, the
\* value it was given, without an error.
C22_FormatPassThrough ==
  ( last.op \in {"formatRoomCode", "formatRoomCodeLib"} )
  => IF last.code.kind = "string" /\ Len(last.code.chars) = 6
     THEN /\ last.ret.kind = "string"
          /\ Len(last.ret.chars) = 7
          /\ SubSeq(last.ret.chars, 1, 3) = SubSeq(last.code.chars, 1, 3)
          /\ last.ret.chars[4] \in {" ", "-"}
          /\ SubSeq(last.ret.chars, 5, 7) = SubSeq(last.code.chars, 4, 6)
     ELSE last.ret = last.code

\* C23: after every step roomsByCode maps a code to an id exactly when rooms
\* holds a room with that id and that code, and the code of a room that the
\* step removed from rooms is no key of roomsByCode any more, so that it
\* resolves to no room and the retry loop of createRoom accepts it.
C23_IndicesConsistent ==
  [][ /\ \A code \in DOMAIN roomsByCode' :
           /\ roomsByCode'[code] \in DOMAIN rooms'
           /\ rooms'[roomsByCode'[code]].code = code
      /\ \A id \in DOMAIN rooms' :
           /\ rooms'[id].code \in DOMAIN roomsByCode'
           /\ roomsByCode'[rooms'[id].code] = id
      /\ \A id \in (DOMAIN rooms) \ (DOMAIN rooms') :
           /\ rooms[id].code \notin DOMAIN roomsByCode'
           /\ \A other \in DOMAIN rooms' : rooms'[other].code # rooms[id].code
    ]_vars

\* C23 witness: the last player of the first room has just left; the room
\* is gone from both maps and the second room is still in both.
C23_Witness ==
  /\ last.op = "leaveRoom"
  /\ last.roomId = 1
  /\ last.ret = NoRoom
  /\ DOMAIN rooms = {2}
  /\ DOMAIN roomsByCode = {rooms[2].code}
  /\ roomsByCode[rooms[2].code] = 2

\* C24: every code generateRoomCode can produce has 6 characters of [A-Z0-9]
\* and passes isValidRoomCode, and for every room that rooms holds
\* getRoomByCode(room.code) and getRoomById(room.id) find that room.
C24_CodesResolve ==
  /\ \A k \in 1 .. Len(characters) :
       /\ characters[k] \in UpperAlnum
       /\ Len(generateRoomCode(k)) = 6
       /\ isValidRoomCode(generateRoomCode(k))
  /\ \A id \in DOMAIN rooms :
       /\ rooms[id].id = id
       /\ isValidRoomCode(rooms[id].code)
       /\ getRoomByCode(rooms[id].code) = id
       /\ getRoomById(rooms[id].id) = id

\* C24 witness: two rooms are there, a user has just joined the second, and
\* each of the two is found by its code.
C24_Witness ==
  /\ last.op = "joinRoom"
  /\ last.ret = 2
  /\ DOMAIN rooms = {1, 2}
  /\ rooms[1].code # rooms[2].code
  /\ getRoomByCode(rooms[1].code) = 1
  /\ getRoomByCode(rooms[2].code) = 2

\* some code of the generator is no key of roomsByCode
FreeCode == \E c \in GeneratedCodes : c \notin DOMAIN roomsByCode

\* C25: a createRoom that is in its loop while some code is held by no room
\* returns in the end, and what it returns is a new room, never undefined.
C25_CreateTerminates ==
  /\ ( InLoop /\ FreeCode )
       ~> ( last.op = "createRoom" /\ last.ret \in DOMAIN rooms )
  /\ [] ( ( last.op = "createRoom" ) => ( last.ret # NoRoom ) )

\* C25 witness: a createRoom is in its loop, has drawn the code of the room
\* that is there and goes round again, with another code still free.
C25_Witness ==
  /\ InLoop
  /\ last.tries >= 1
  /\ last.roomCode \in DOMAIN roomsByCode
  /\ FreeCode

\* C26: a joinRoom, leaveRoom, startGame or updateUserConnection leaves every
\* room other than the one it resolved its argument to as it was, in rooms
\* and under its code in roomsByCode, whether the call succeeds or not.
C26_OtherRoomsUntouched ==
  [][ ( last'.op \in {"joinRoom", "leaveRoom", "startGame",
                      "updateUserConnection"} )
      => \A id \in DOMAIN rooms :
           ( id # last'.roomId )
           => ( /\ id \in DOMAIN rooms'
                /\ rooms'[id] = rooms[id]
                /\ rooms[id].code \in DOMAIN roomsByCode'
                /\ roomsByCode'[rooms[id].code] = roomsByCode[rooms[id].code] )
    ]_vars

\* C26 witness: the host of the second room has just started its game while
\* the first room, with the same two users, is still Waiting.
C26_Witness ==
  /\ last.op = "startGame"
  /\ last.ret = 2
  /\ DOMAIN rooms = {1, 2}
  /\ rooms[2].status = COMPOSING
  /\ rooms[1].status = WAITING
  /\ rooms[1].theme = NoTheme
  /\ PlayerIds(rooms[1]) = PlayerIds(rooms[2])

\* the room_updated events of the last handler that carry the room id
RoomUpdates(events, id) ==
  { i \in 1 .. Len(events) :
      events[i].event = ROOM_UPDATED /\ events[i].room[1].id = id }

\* C27: a handler emits room_updated in the step in which the service
\* commits the change, so that the events of a room follow the order of its
\* changes: every step that creates a room or changes one that stays emits
\* one room_updated for it to the sockets of its socket.io room, and every
\* room_updated a step emits carries the room as the service holds it after
\* that step, never an older one.
C27_EventsFollowCommits ==
  [][ /\ \A i \in 1 .. Len(emitted') :
           ( emitted'[i].event = ROOM_UPDATED )
           => ( /\ emitted'[i].room[1].id \in DOMAIN rooms'
                /\ emitted'[i].room[1] = rooms'[emitted'[i].room[1].id] )
      /\ \A id \in DOMAIN rooms' :
           ( id \notin DOMAIN rooms \/ rooms'[id] # rooms[id] )
           => ( /\ Cardinality(RoomUpdates(emitted', id)) = 1
                /\ \A i \in RoomUpdates(emitted', id) :
                     emitted'[i].to = { s \in SocketIds : id \in joined'[s] } )
    ]_vars

\* C27 witness: a player has just left a room of two through leave_room, and
\* the room_updated that went to the socket still in the room carries the
\* room with the one player left.
C27_Witness ==
  /\ request.event = "leave_room"
  /\ last.op = "leaveRoom"
  /\ last.lenBefore = 2
  /\ last.ret \in DOMAIN rooms
  /\ Len(rooms[last.ret].players) = 1
  /\ Len(emitted) = 1
  /\ emitted[1].event = ROOM_UPDATED
  /\ emitted[1].room = << rooms[last.ret] >>
  /\ emitted[1].to # {}

\* C28: a startGame that returns the room was called with the id of a user
\* who is in the players of that room.
C28_StarterIsPlayer ==
  [][ \A id \in DOMAIN rooms :
        ( last'.op = "startGame" /\ last'.ret = id )
        => last'.userId \in PlayerIds(rooms[id]) ]_vars

\* C29: the ids of the players of a room are pairwise distinct.
C29_DistinctPlayerIds ==
  \A id \in DOMAIN rooms :
    \A i, j \in 1 .. Len(rooms[id].players) :
      ( i # j ) => ( rooms[id].players[i].id # rooms[id].players[j].id )

\* C29 witness: a player of a room of three has just joined it again, and
\* the room still has three players.
C29_Witness ==
  /\ last.op = "joinRoom"
  /\ last.ret \in DOMAIN rooms
  /\ last.lenBefore = 3
  /\ Len(rooms[last.ret].players) = 3
  /\ last.userId \in PlayerIds(rooms[last.ret])
  /\ Cardinality(PlayerIds(rooms[last.ret])) = 3

\* C30: a joinRoom with the id of a player of a Waiting room that has
\* maxPlayers players returns undefined and leaves the player, with its
\* username, connection state and socket id, and everything else as it was.
C30_FullRoomRejoinRejected ==
  [][ \A id \in DOMAIN rooms :
        ( /\ last'.op = "joinRoom"
          /\ last'.roomId = id
          /\ rooms[id].status = WAITING
          /\ Len(rooms[id].players) = rooms[id].maxPlayers
          /\ last'.userId \in PlayerIds(rooms[id]) )
        => ( /\ last'.ret = NoRoom
             /\ id \in DOMAIN rooms'
             /\ rooms'[id].players[findIndex(rooms[id].players, last'.userId)]
                  = rooms[id].players[findIndex(rooms[id].players, last'.userId)]
             /\ rooms' = rooms
             /\ roomsByCode' = roomsByCode ) ]_vars

\* C30 witness: a disconnected player of a full Waiting room has just been
\* refused with another username and a socket id, and still has the old
\* username, no socket id and isConnected false.
C30_Witness ==
  /\ last.op = "joinRoom"
  /\ last.ret = NoRoom
  /\ last.roomId \in DOMAIN rooms
  /\ LET room == rooms[last.roomId]
         i == findIndex(room.players, last.userId)
     IN /\ room.status = WAITING
        /\ Len(room.players) = room.maxPlayers
        /\ i >= 1
        /\ room.players[i].username # last.username
        /\ last.socketId \notin {NoSocket, NoKey}
        /\ room.players[i].socketId = NoSocket
        /\ ~ room.players[i].isConnected

=============================================================================
